---- MODULE Spec2Model ----
(***************************************************************************)
(* Model of the remote render UI control form (src/src/ControlsForm.cpp):   *)
(* the named-channel publish/subscribe wiring built by the ControlsForm     *)
(* constructor, the "fov" and "tile_histogram" subscription callbacks run   *)
(* by the receive context, the PFM export savePfm run by the interactive    *)
(* context, and the pure helper convertSampleValue; and of the program's    *)
(* main (src/unnamed/part_000): start-up, main loop and shutdown.           *)
(*                                                                         *)
(* Numbers.  Slider positions, angles and published values are floats in    *)
(* the source.  Control values are modelled in fixed point, in thousandths  *)
(* (a slider position 0.25 is 250, 1.5708 rad is 1571); products and        *)
(* quotients are computed on these integers, truncating.  The histogram     *)
(* normalisation is modelled in IEEE binary32 arithmetic (24-bit            *)
(* significand, round to nearest even), because its result depends on the   *)
(* rounding of 1.f / max.                                                   *)
(***************************************************************************)
EXTENDS Integers, Sequences, FiniteSets, TLC

VARIABLES
  \* ---- the controls form: bindings and subscriptions
  ctorPc,        \* position of the ControlsForm constructor (index in CtorSteps)
  value,         \* displayed value of each control (thousandths; device: item index)
  sent,          \* the packets handed to the sender, in order: [ch, val]
  subs,          \* channels with a registered subscription (the subs map)
  screenVisible, \* screen->set_visible
  nUser,         \* per channel: number of user-driven changes so far
  nActions,      \* user actions so far (bounded by MaxUserActions)
  registry,      \* per channel: callbacks registered with the receiver
  \* ---- the receive context dispatching inbound packets
  rxPc,          \* "idle", or the channel whose callback is running
  rxPkt,         \* payload of the packet being dispatched, or dispatched last
  nMsgs,         \* inbound packets so far (bounded by MaxMsgs)
  nApplied,      \* "fov" updates applied by the subscription callback
  histHeader,    \* hist->set_header: the maximum shown in "max tile: <max>"
  histValues,    \* hist->set_values: sequence of binary32 values
  \* ---- frame buffer and export
  hdrHeader,     \* [width, height]
  hdrBuffer,     \* sequence of samples
  hdrBufferMutex,\* "free", "rx" or "ui"
  frameState,    \* "Idle", "Receiving", "Complete"
  rowsDone,      \* rows of the current cycle stored so far
  frameNo,       \* number of the cycle being received (0: none yet)
  nComplete,     \* cycles that reached Complete
  framePc,       \* receive context position inside a frame packet handler
  savePc,        \* interactive context position inside savePfm
  sawEmpty,      \* result of the hdrBuffer.empty() test of the running savePfm
  file,          \* the export target: [exists, header, data]
  nSaves,        \* savePfm calls so far (bounded by MaxSaves)
  exported,      \* what the last file write read: [state, frame, header, buffer]
  \* ---- convertSampleValue
  sampleIn,      \* a pair of arguments, as numerators over SampleDenom
  sampleOut,     \* the pair of results (-1: not called yet)
  \* ---- the transport under the sender
  linkUp,        \* TRUE while a transport write succeeds
  \* ---- history of the "fov" binding
  lastFov,       \* the most recent event on the binding, applied and offered
  \* ---- main()
  mainPc,        \* position of main
  mainIn,        \* command line and environment: [args, nif, connect, guiInit]
  alive,         \* the objects of main that are constructed and not destroyed
  trace,         \* what main has done so far, in order
  frames,        \* iterations of the main loop so far
  exit           \* "running", or how the process ended: "EXIT_SUCCESS",
                 \* "EXIT_FAILURE" or "terminate" (unhandled exception)

formVars   == <<ctorPc, value, sent, subs, screenVisible, nUser, nActions,
                registry>>
rxVars     == <<rxPc, rxPkt, nMsgs, nApplied, histHeader, histValues>>
frameVars  == <<hdrHeader, hdrBuffer, hdrBufferMutex, frameState, rowsDone,
                frameNo, nComplete, framePc, savePc, sawEmpty, file, nSaves,
                exported>>
sampleVars == <<sampleIn, sampleOut>>
netVars    == <<linkUp>>
ghostVars  == <<lastFov>>
mainVars   == <<mainPc, mainIn, alive, trace, frames, exit>>
vars       == <<formVars, rxVars, frameVars, sampleVars, netVars, ghostVars,
                mainVars>>

-----------------------------------------------------------------------------
(* Bounds of the model *)

\* user actions (slider drags, rotations, device choices, stop) explored
MaxUserActions == 2
\* inbound packets explored
MaxMsgs == 2
\* largest frame width and height received
MaxWidth == 2
MaxHeight == 2
\* accumulation cycles (frames) received
MaxFrames == 2
\* savePfm calls explored
MaxSaves == 2
\* largest tile count and longest sequence given to the histogram callback
MaxLoops == 2
MaxCount == 41
MaxHistLen == 2
\* convertSampleValue is tried on the values k / SampleDenom, k in 0..SampleDenom
SampleDenom == 32

-----------------------------------------------------------------------------
(* Fixed-point helpers *)

\* one, in the fixed-point scale of the model (thousandths)
Unit == 10^3
\* 2.f * M_PI in thousandths
TwoPi == 6283

-----------------------------------------------------------------------------
(* Channels and the constructor's steps *)

SliderChannels == {"fov", "exposure", "gamma", "X", "Y", "lambda1", "lambda2"}
ControlChannels == SliderChannels \cup {"env_rotation", "device"}

\* The blocks of the constructor, in source order.
CtorSteps ==
  << "env_rotation", "fov", "sub_fov", "exposure", "gamma", "X", "Y",
     "lambda1", "lambda2", "sub_tile_histogram", "device", "stop" >>

CtorDone == ctorPc > Len(CtorSteps)
CtorAt(step) == ctorPc <= Len(CtorSteps) /\ CtorSteps[ctorPc] = step

\* The value each slider is given by set_value in the constructor.
SliderDefault(c) ==
  CASE c = "fov"      -> (90 * Unit) \div 360       \* 90.f / 360.f
    [] c = "exposure" -> Unit \div 2                \* .5f
    [] c = "gamma"    -> (22 * Unit) \div 40        \* 2.2f / 4.f
    [] c = "X"        -> (640 * Unit) \div 1280     \* 640.f / 1280.f
    [] c = "Y"        -> (360 * Unit) \div 720      \* 360.f / 720.f
    [] c = "lambda1"  -> (500 * Unit) \div 10       \* 500.f / 10.f
    [] c = "lambda2"  -> (500 * Unit) \div 10       \* 500.f / 10.f

\* The domain value a slider's callback serialises for position v.
SliderPublished(c, v) ==
  CASE c = "fov"      -> v * 360
    [] c = "exposure" -> 4 * (v - Unit \div 2)
    [] c = "gamma"    -> 4 * v
    [] c = "X"        -> v * 1280
    [] c = "Y"        -> v * 720
    [] c = "lambda1"  -> v * 100
    [] c = "lambda2"  -> v * 100

\* Rotator callback: angle = value/(2.f*M_PI) * 360.f
RotatorPublished(v) == (v * 360 * Unit) \div TwoPi

\* deviceChooser items
DeviceItems == << "cpu", "ipu" >>

\* serialise(sender, name, v): the packet is handed to the sender, which
\* writes it to the transport once; ok tells whether that write succeeded.
serialise(log, name, v) == Append(log, [ch |-> name, val |-> v, ok |-> linkUp])

\* Packets sent so far on channel c.
PubCount(c) == Cardinality({i \in 1..Len(sent) : sent[i].ch = c})


\* History of the "fov" binding.  kind, v: the most recent event that set the
\* slider ("default": the constructor's set_value, "user": a drag, "remote":
\* a run of the subscription callback) with its argument; rep: how many
\* remote updates with this same payload were applied in succession;
\* okind, ov: the most recent event counting also the inbound "fov" packets
\* that found no subscription.
FovEvent(kind, v) ==
  [kind |-> kind, v |-> v,
   rep |-> IF kind # "remote" THEN 0
           ELSE IF lastFov.kind = "remote" /\ lastFov.v = v
                  THEN lastFov.rep + 1 ELSE 1,
   okind |-> kind, ov |-> v]

FovDropped(v) == [lastFov EXCEPT !.okind = "remote", !.ov = v]

\* (mutation) the callback is registered twice by one subscribe
SubscribeTwice(reg, held, ch) == [reg EXCEPT ![ch] = @ + 2]

\* subs[ch] = receiver.subscribe(ch, callback): the receiver registers the
\* callback; the handle is stored under ch in the subs map, and a handle
\* that was stored there before is released, which takes its callback out.
Subscribe(reg, held, ch) ==
  [reg EXCEPT ![ch] = (IF ch \in held THEN @ - 1 ELSE @) + 1]

-----------------------------------------------------------------------------
(* The form's constructor, block by block *)

\* rotationWheel: the callback is set; no value is set and nothing is sent.
CtorRotator ==
  /\ CtorAt("env_rotation")
  /\ ctorPc' = ctorPc + 1
  /\ UNCHANGED <<value, sent, subs, screenVisible, nUser, nActions, registry>>
  /\ UNCHANGED <<rxVars, frameVars, sampleVars, netVars, ghostVars, mainVars>>

\* The log after slider->set_value(default); slider->callback()(slider->value()).
SliderInitSent(log, c) == serialise(log, c, SliderPublished(c, SliderDefault(c)))

\* fovSlider, exposureSlider, gammaSlider, XSlider, YSlider, lambda1Slider,
\* lambda2Slider: set_callback, set_value(default), callback()(value()).
CtorSlider(c) ==
  /\ CtorAt(c)
  /\ value' = [value EXCEPT ![c] = SliderDefault(c)]
  /\ sent' = SliderInitSent(sent, c)
  /\ ctorPc' = ctorPc + 1
  /\ lastFov' = IF c = "fov" THEN FovEvent("default", SliderDefault(c))
                ELSE lastFov
  /\ UNCHANGED <<subs, screenVisible, nUser, nActions, registry>>
  /\ UNCHANGED <<rxVars, frameVars, sampleVars, netVars, mainVars>>

\* subs["fov"] = receiver.subscribe("fov", ...) and
\* subs["tile_histogram"] = receiver.subscribe("tile_histogram", ...)
CtorSubscribe(ch) ==
  /\ CtorAt("sub_" \o ch)
  /\ registry' = Subscribe(registry, subs, ch)
  /\ subs' = subs \cup {ch}
  /\ ctorPc' = ctorPc + 1
  /\ UNCHANGED <<value, sent, screenVisible, nUser, nActions>>
  /\ UNCHANGED <<rxVars, frameVars, sampleVars, netVars, ghostVars, mainVars>>

\* deviceChooser: a ComboBox over {"cpu", "ipu"} with its callback; the first
\* item is selected, nothing is sent.
CtorDeviceChooser ==
  /\ CtorAt("device")
  /\ value' = [value EXCEPT !["device"] = 1]
  /\ ctorPc' = ctorPc + 1
  /\ UNCHANGED <<sent, subs, screenVisible, nUser, nActions, registry>>
  /\ UNCHANGED <<rxVars, frameVars, sampleVars, netVars, ghostVars, mainVars>>

\* add_button("Stop", ...): the last block of the constructor.
CtorStopButton ==
  /\ CtorAt("stop")
  /\ ctorPc' = ctorPc + 1
  /\ UNCHANGED <<value, sent, subs, screenVisible, nUser, nActions, registry>>
  /\ UNCHANGED <<rxVars, frameVars, sampleVars, netVars, ghostVars, mainVars>>

-----------------------------------------------------------------------------
(* User interaction (interactive context), once the form is built *)

\* positions a user can drag a slider to: the two ends of its travel
SliderInputs == {0, Unit}
\* angles (thousandths of a radian) a user can turn the rotator to
RotatorInputs == {0, TwoPi \div 2}

UserEnabled == CtorDone /\ screenVisible /\ nActions < MaxUserActions

\* (mutation) a slider that goes back to its previous position when the
\* write of its packet fails
UserSliderRevert(c, v) ==
  /\ UserEnabled
  /\ value' = [value EXCEPT ![c] = IF linkUp THEN v ELSE @]
  /\ sent' = serialise(sent, c, SliderPublished(c, v))
  /\ nUser' = [nUser EXCEPT ![c] = @ + 1]
  /\ nActions' = nActions + 1
  /\ lastFov' = IF c = "fov" THEN FovEvent("user", v) ELSE lastFov
  /\ UNCHANGED <<ctorPc, subs, screenVisible, registry>>
  /\ UNCHANGED <<rxVars, frameVars, sampleVars, netVars, mainVars>>

\* A slider is dragged to v: the slider stores v and calls its callback.
UserSlider(c, v) ==
  /\ UserEnabled
  /\ value' = [value EXCEPT ![c] = v]
  /\ sent' = serialise(sent, c, SliderPublished(c, v))
  /\ nUser' = [nUser EXCEPT ![c] = @ + 1]
  /\ nActions' = nActions + 1
  /\ lastFov' = IF c = "fov" THEN FovEvent("user", v) ELSE lastFov
  /\ UNCHANGED <<ctorPc, subs, screenVisible, registry>>
  /\ UNCHANGED <<rxVars, frameVars, sampleVars, netVars, mainVars>>

\* The rotator is turned to v radians.
UserRotate(v) ==
  /\ UserEnabled
  /\ value' = [value EXCEPT !["env_rotation"] = v]
  /\ sent' = serialise(sent, "env_rotation", RotatorPublished(v))
  /\ nUser' = [nUser EXCEPT !["env_rotation"] = @ + 1]
  /\ nActions' = nActions + 1
  /\ UNCHANGED <<ctorPc, subs, screenVisible, registry>>
  /\ UNCHANGED <<rxVars, frameVars, sampleVars, netVars, ghostVars, mainVars>>

\* Item index of the device chooser is selected.
UserDevice(index) ==
  /\ UserEnabled
  /\ value' = [value EXCEPT !["device"] = index]
  /\ sent' = serialise(sent, "device", DeviceItems[index])
  /\ nUser' = [nUser EXCEPT !["device"] = @ + 1]
  /\ nActions' = nActions + 1
  /\ UNCHANGED <<ctorPc, subs, screenVisible, registry>>
  /\ UNCHANGED <<rxVars, frameVars, sampleVars, netVars, ghostVars, mainVars>>

\* The Stop button: serialise(sender, "stop", true); screen->set_visible(false).
UserStop ==
  /\ UserEnabled
  /\ sent' = serialise(sent, "stop", TRUE)
  /\ screenVisible' = FALSE
  /\ nActions' = nActions + 1
  /\ UNCHANGED <<ctorPc, value, subs, nUser, registry>>
  /\ UNCHANGED <<rxVars, frameVars, sampleVars, netVars, ghostVars, mainVars>>

\* The transport stops accepting writes (the peer is gone, the buffer is
\* full): from now on a write fails, is reported by the sender and returns.
TransportDown ==
  /\ linkUp
  /\ linkUp' = FALSE
  /\ UNCHANGED <<formVars, rxVars, frameVars, sampleVars, ghostVars, mainVars>>

\* The transport accepts writes again.
TransportUp ==
  /\ ~linkUp
  /\ linkUp' = TRUE
  /\ UNCHANGED <<formVars, rxVars, frameVars, sampleVars, ghostVars, mainVars>>

-----------------------------------------------------------------------------
(* IEEE binary32 arithmetic on the values the histogram callback computes.   *)
(* A float is [k, m, e]: k = "num" is the number m * 2^e, with m = 0 (zero)  *)
(* or 2^23 <= m < 2^24; k = "inf" and k = "nan" are +infinity and NaN.       *)
(* Counts are below 2^24, so their conversion to float is exact.             *)

F32Zero == [k |-> "num", m |-> 0, e |-> 0]
F32One  == [k |-> "num", m |-> 2^23, e |-> -23]
F32Inf  == [k |-> "inf", m |-> 0, e |-> 0]
F32NaN  == [k |-> "nan", m |-> 0, e |-> 0]

\* num / den rounded to the nearest integer, ties to even
RoundNearestEven(num, den) ==
  LET q == num \div den
      r == num % den
  IN IF 2 * r > den \/ (2 * r = den /\ q % 2 = 1) THEN q + 1 ELSE q

\* a rounded significand that reached 2^24 is renormalised
F32Norm(m, e) ==
  IF m = 2^24 THEN [k |-> "num", m |-> 2^23, e |-> e + 1]
              ELSE [k |-> "num", m |-> m, e |-> e]

RECURSIVE ShiftUp(_, _, _)
\* least s >= s0 with n * 2^s >= 2^23 * d
ShiftUp(n, d, s0) == IF n * 2^s0 >= 2^23 * d THEN s0 ELSE ShiftUp(n, d, s0 + 1)

RECURSIVE ShiftDown(_, _)
\* least k >= k0 with p < 2^24 * 2^k
ShiftDown(p, k0) == IF p < 2^24 * 2^k0 THEN k0 ELSE ShiftDown(p, k0 + 1)

\* float(n) / float(d) for counts n, d
F32Div(n, d) ==
  IF d = 0 THEN (IF n = 0 THEN F32NaN ELSE F32Inf)
  ELSE IF n = 0 THEN F32Zero
  ELSE LET s == ShiftUp(n, d, 0)
       IN F32Norm(RoundNearestEven(n * 2^s, d), -s)

\* float(v) * f for a count v
F32MulCount(v, f) ==
  IF f.k = "nan" THEN F32NaN
  ELSE IF f.k = "inf" THEN (IF v = 0 THEN F32NaN ELSE F32Inf)
  ELSE IF v = 0 \/ f.m = 0 THEN F32Zero
  ELSE LET p == v * f.m
           k == ShiftDown(p, 0)
       IN F32Norm(RoundNearestEven(p, 2^k), f.e + k)

\* 0 <= f <= 1
F32InUnit(f) ==
  /\ f.k = "num"
  /\ \/ f.m = 0
     \/ f.e <= -24
     \/ f = F32One

-----------------------------------------------------------------------------
(* The subscription callbacks *)

RECURSIVE MaxFrom(_, _, _)
\* the loop "for v in data: if (v > max) max = v", from index i with max so far
MaxFrom(data, i, max) ==
  IF i > Len(data) THEN max
  ELSE MaxFrom(data, i + 1, IF data[i] > max THEN data[i] ELSE max)

\* const float scale = 1.f / max
HistScale(max) == F32Div(1, max)

\* The "tile_histogram" callback on the decoded counts: the header value
\* ("max tile: <max>") and the values given to hist->set_values.
TileHistogram(data) ==
  LET max == MaxFrom(data, 1, 0)
      scale == HistScale(max)
  IN [header |-> max,
      values |-> [i \in 1..Len(data) |-> F32MulCount(data[i], scale)]]

\* a callback that moves the slider by the decoded value instead of setting it
FovSliderValueAdd(fovRadians) == value["fov"] + (fovRadians * Unit) \div TwoPi

\* The "fov" callback: the slider position set for a decoded fovRadians
\* (thousandths): fovRadians / (2.f * M_PI)
FovSliderValue(fovRadians) == (fovRadians * Unit) \div TwoPi

\* (mutation) set_value calls the slider's callback, which serialises
SetValueSentEcho(log, c, v) == serialise(log, c, SliderPublished(c, v))

\* The sender's log after the callback's fovSlider->set_value(v): a
\* programmatic set_value stores the value and does not call the slider's
\* callback (the constructor calls it by hand after set_value).
SetValueSent(log, c, v) == log

\* payloads of inbound "fov" packets: 0, 1.571 and 7.0 rad
FovPayloads == {<<0>>, <<1571>>, <<7000>>}
\* payloads of inbound "tile_histogram" packets
HistPayloads == {<<>>, <<0, 0>>, <<1, 2>>}
\* channels the remote sends on; "render_progress" has no subscriber here
InboundChannels == {"fov", "tile_histogram", "render_progress"}

\* a payload the codec cannot decode (truncated or of another type)
Malformed == <<-1>>
Decodable(p) == p # Malformed

PayloadsOf(ch) ==
  CASE ch = "fov" -> FovPayloads
    [] ch = "tile_histogram" -> HistPayloads
    [] OTHER -> {<<1>>}

\* The receive context takes the next inbound packet and looks its channel
\* up: with a subscription the callback starts, without one it is dropped.
RxReceive(ch, p) ==
  /\ rxPc = "idle"
  /\ nMsgs < MaxMsgs
  /\ nMsgs' = nMsgs + 1
  /\ IF registry[ch] > 0
       THEN rxPc' = ch /\ rxPkt' = p /\ UNCHANGED lastFov
       ELSE /\ UNCHANGED <<rxPc, rxPkt>>
            /\ lastFov' = IF ch = "fov" THEN FovDropped(p[1]) ELSE lastFov
  /\ UNCHANGED <<nApplied, histHeader, histValues>>
  /\ UNCHANGED <<formVars, frameVars, sampleVars, netVars, mainVars>>

\* The "fov" subscription callback.
RxFovCallback ==
  /\ rxPc = "fov"
  /\ Decodable(rxPkt)
  /\ LET fovRadians == rxPkt[1]
     IN /\ value' = [value EXCEPT !["fov"] = FovSliderValue(fovRadians)]
        /\ sent' = SetValueSent(sent, "fov", FovSliderValue(fovRadians))
  /\ nApplied' = nApplied + 1
  /\ rxPc' = "idle"
  /\ lastFov' = FovEvent("remote", rxPkt[1])
  /\ UNCHANGED <<ctorPc, subs, screenVisible, nUser, nActions, registry>>
  /\ UNCHANGED <<rxPkt, nMsgs, histHeader, histValues>>
  /\ UNCHANGED <<frameVars, sampleVars, netVars, mainVars>>

\* The "tile_histogram" subscription callback.
RxHistCallback ==
  /\ rxPc = "tile_histogram"
  /\ Decodable(rxPkt)
  /\ histHeader' = TileHistogram(rxPkt).header
  /\ histValues' = TileHistogram(rxPkt).values
  /\ rxPc' = "idle"
  /\ UNCHANGED <<rxPkt, nMsgs, nApplied>>
  /\ UNCHANGED <<formVars, frameVars, sampleVars, netVars, ghostVars, mainVars>>

\* The "fov" callback on a payload that does not decode.  The callback
\* neither tests the outcome of deserialise nor catches anything, and what
\* deserialise does with such a payload is the codec's business: either it
\* throws, and the exception leaves the callback into the receive context,
\* or it returns with fovRadians still 0.f, which is then set on the slider.
RxFovMalformed ==
  /\ rxPc = "fov"
  /\ ~Decodable(rxPkt)
  /\ \/ /\ rxPc' = "crashed"
        /\ UNCHANGED <<value, sent, nApplied, lastFov>>
     \/ /\ LET fovRadians == 0
           IN /\ value' = [value EXCEPT !["fov"] = FovSliderValue(fovRadians)]
              /\ sent' = SetValueSent(sent, "fov", FovSliderValue(fovRadians))
              /\ lastFov' = FovEvent("remote", fovRadians)
        /\ nApplied' = nApplied + 1
        /\ rxPc' = "idle"
  /\ UNCHANGED <<ctorPc, subs, screenVisible, nUser, nActions, registry>>
  /\ UNCHANGED <<rxPkt, nMsgs, histHeader, histValues>>
  /\ UNCHANGED <<frameVars, sampleVars, netVars, mainVars>>

\* The "tile_histogram" callback on a payload that does not decode: either
\* deserialise throws, or it returns with data still empty, and the empty
\* histogram with header "max tile: 0" replaces the one displayed.
RxHistMalformed ==
  /\ rxPc = "tile_histogram"
  /\ ~Decodable(rxPkt)
  /\ \/ /\ rxPc' = "crashed"
        /\ UNCHANGED <<histHeader, histValues>>
     \/ /\ LET data == <<>>
           IN /\ histHeader' = TileHistogram(data).header
              /\ histValues' = TileHistogram(data).values
        /\ rxPc' = "idle"
  /\ UNCHANGED <<rxPkt, nMsgs, nApplied>>
  /\ UNCHANGED <<formVars, frameVars, sampleVars, netVars, ghostVars, mainVars>>

-----------------------------------------------------------------------------
(* Frame accumulation by the receive context.  The handlers that fill       *)
(* hdrHeader and hdrBuffer are not part of ControlsForm.cpp; they follow the *)
(* accumulator design: a header packet starts a cycle (Idle/Complete ->      *)
(* Receiving) and sizes the buffer, each row packet stores one row in        *)
(* arrival order, the last row completes the cycle, and every mutation is    *)
(* made inside a critical section of hdrBufferMutex.                         *)

\* the sample stored at buffer index i by cycle number f
Sample(f, i) == f * 100 + i

\* vector resize: existing samples kept, new ones zero
Resize(buf, n) == [i \in 1..n |-> IF i <= Len(buf) THEN buf[i] ELSE 0]

\* The receive context takes hdrBufferMutex for the next frame packet: a
\* header packet when no cycle is running, a row packet otherwise.
RxFrameLock ==
  /\ framePc = "idle"
  /\ hdrBufferMutex = "free"
  /\ frameState = "Receiving" \/ frameNo < MaxFrames
  /\ hdrBufferMutex' = "rx"
  /\ framePc' = IF frameState = "Receiving" THEN "row" ELSE "hdr"
  /\ UNCHANGED <<hdrHeader, hdrBuffer, frameState, rowsDone, frameNo, nComplete,
                 savePc, sawEmpty, file, nSaves, exported>>
  /\ UNCHANGED <<formVars, rxVars, sampleVars, netVars, ghostVars, mainVars>>

\* Header packet: width and height are set and the buffer is sized.
RxWriteHeader(w, h) ==
  /\ framePc = "hdr"
  /\ hdrHeader' = [width |-> w, height |-> h]
  /\ hdrBuffer' = Resize(hdrBuffer, w * h * 3)
  /\ frameState' = "Receiving"
  /\ rowsDone' = 0
  /\ frameNo' = frameNo + 1
  /\ framePc' = "unlock"
  /\ UNCHANGED <<hdrBufferMutex, nComplete, savePc, sawEmpty, file, nSaves,
                 exported>>
  /\ UNCHANGED <<formVars, rxVars, sampleVars, netVars, ghostVars, mainVars>>

\* Row packet: row rowsDone of the buffer is stored; the last row completes
\* the cycle.
RxWriteRow ==
  /\ framePc = "row"
  /\ LET w3 == hdrHeader.width * 3
         lo == rowsDone * w3
     IN hdrBuffer' = [i \in 1..Len(hdrBuffer) |->
                        IF lo < i /\ i <= lo + w3 THEN Sample(frameNo, i)
                                                  ELSE hdrBuffer[i]]
  /\ rowsDone' = rowsDone + 1
  /\ IF rowsDone + 1 = hdrHeader.height
       THEN frameState' = "Complete" /\ nComplete' = nComplete + 1
       ELSE UNCHANGED <<frameState, nComplete>>
  /\ framePc' = "unlock"
  /\ UNCHANGED <<hdrHeader, hdrBufferMutex, frameNo, savePc, sawEmpty, file,
                 nSaves, exported>>
  /\ UNCHANGED <<formVars, rxVars, sampleVars, netVars, ghostVars, mainVars>>

\* End of the packet handler's critical section.
RxFrameUnlock ==
  /\ framePc = "unlock"
  /\ hdrBufferMutex' = "free"
  /\ framePc' = "idle"
  /\ UNCHANGED <<hdrHeader, hdrBuffer, frameState, rowsDone, frameNo, nComplete,
                 savePc, sawEmpty, file, nSaves, exported>>
  /\ UNCHANGED <<formVars, rxVars, sampleVars, netVars, ghostVars, mainVars>>

-----------------------------------------------------------------------------
(* ControlsForm::savePfm, run by the interactive context *)

\* f << "PF\n"; f << to_string(width) << " "; f << to_string(height) << "\n";
\* f << "-1.0\n";
PfmHeader(w, h) ==
  << "PF\n", ToString(w) \o " ", ToString(h) \o "\n", "-1.0\n" >>

\* f.write(hdrBuffer.data() + r * width * 3, width * 3 * sizeof(float)): the
\* width * 3 samples from offset r * width * 3 (a read past the end of the
\* buffer yields -1)
RowSamples(buf, r, w) ==
  [j \in 1..(w * 3) |->
     IF r * w * 3 + j <= Len(buf) THEN buf[r * w * 3 + j] ELSE -1]

RECURSIVE SaveRowsFrom(_, _, _, _)
\* the loop "for (r = ...; r >= 0; --r)" from row r, appending to out
SaveRowsFrom(buf, w, r, out) ==
  IF r >= 0 THEN SaveRowsFrom(buf, w, r - 1, out \o RowSamples(buf, r, w))
            ELSE out

RECURSIVE SaveRowsUpFrom(_, _, _, _, _)
SaveRowsUpFrom(buf, w, h, r, out) ==
  IF r < h THEN SaveRowsUpFrom(buf, w, h, r + 1, out \o RowSamples(buf, r, w))
           ELSE out

\* (mutation) the row loop runs from row 0 up to row height - 1
SaveRowsTopDown(buf, w, h) == SaveRowsUpFrom(buf, w, h, 0, <<>>)

\* the samples written by the row loop, which starts at r = height - 1
SaveRows(buf, w, h) == SaveRowsFrom(buf, w, h - 1, <<>>)

\* (mutation) the test is inverted: if (hdrBuffer.empty())
EmptyOutcomesInverted == {hdrBuffer # <<>>}

\* The result of the unlocked hdrBuffer.empty(): the buffer's own emptiness,
\* or, when the receive context is resizing the buffer at that moment, also
\* that of the resized buffer.
EmptyOutcomes ==
  {hdrBuffer = <<>>} \cup (IF framePc = "hdr" THEN {FALSE} ELSE {})

\* savePfm is called.
SaveCall ==
  /\ savePc = "idle"
  /\ nSaves < MaxSaves
  /\ savePc' = "check"
  /\ nSaves' = nSaves + 1
  /\ UNCHANGED <<hdrHeader, hdrBuffer, hdrBufferMutex, frameState, rowsDone,
                 frameNo, nComplete, framePc, sawEmpty, file, exported>>
  /\ UNCHANGED <<formVars, rxVars, sampleVars, netVars, ghostVars, mainVars>>

\* if (!hdrBuffer.empty()), read before the lock is taken; an empty buffer ends
\* the call.
SaveCheck ==
  /\ savePc = "check"
  /\ \E empty \in EmptyOutcomes :
       /\ sawEmpty' = empty
       /\ savePc' = IF empty THEN "idle" ELSE "lock"
  /\ UNCHANGED <<hdrHeader, hdrBuffer, hdrBufferMutex, frameState, rowsDone,
                 frameNo, nComplete, framePc, file, nSaves, exported>>
  /\ UNCHANGED <<formVars, rxVars, sampleVars, netVars, ghostVars, mainVars>>

\* std::lock_guard<std::mutex> lock(hdrBufferMutex)
SaveLock ==
  /\ savePc = "lock"
  /\ hdrBufferMutex = "free"
  /\ hdrBufferMutex' = "ui"
  /\ savePc' = "write"
  /\ UNCHANGED <<hdrHeader, hdrBuffer, frameState, rowsDone, frameNo, nComplete,
                 framePc, sawEmpty, file, nSaves, exported>>
  /\ UNCHANGED <<formVars, rxVars, sampleVars, netVars, ghostVars, mainVars>>

\* The file is opened (truncated), the header and the rows are written, and
\* the lock is released on return.
SaveWrite ==
  /\ savePc = "write"
  /\ file' = [exists |-> TRUE,
              header |-> PfmHeader(hdrHeader.width, hdrHeader.height),
              data   |-> SaveRows(hdrBuffer, hdrHeader.width, hdrHeader.height)]
  /\ exported' = [state |-> frameState, frame |-> frameNo,
                  header |-> hdrHeader, buffer |-> hdrBuffer]
  /\ hdrBufferMutex' = "free"
  /\ savePc' = "idle"
  /\ UNCHANGED <<hdrHeader, hdrBuffer, frameState, rowsDone, frameNo, nComplete,
                 framePc, sawEmpty, nSaves>>
  /\ UNCHANGED <<formVars, rxVars, sampleVars, netVars, ghostVars, mainVars>>

-----------------------------------------------------------------------------
(* convertSampleValue *)

\* (mutation) the result is not raised to 1
convertSampleValueNoMin(k) == (k * 16) \div SampleDenom

\* std::uint32_t sampleCount = value * 16; return std::max(sampleCount, 1u);
\* for value = k / SampleDenom (the conversion to uint32 truncates)
convertSampleValue(k) ==
  LET sampleCount == (k * 16) \div SampleDenom
  IN IF sampleCount > 1 THEN sampleCount ELSE 1

\* convertSampleValue is called on argument i of the pair sampleIn.
ConvertCall(i) ==
  /\ sampleOut[i] = -1
  /\ sampleOut' = [sampleOut EXCEPT ![i] = convertSampleValue(sampleIn[i])]
  /\ UNCHANGED sampleIn
  /\ UNCHANGED <<formVars, rxVars, frameVars, netVars, ghostVars, mainVars>>

-----------------------------------------------------------------------------
(* main(): start-up, main loop and shutdown (src/unnamed/part_000).          *)
(* trace lists what main did: "+x" constructs object x, "-x" destroys it,    *)
(* other entries are calls and log lines.                                    *)

otherVars == <<formVars, rxVars, frameVars, sampleVars, netVars, ghostVars>>

Did(e) == \E i \in 1..Len(trace) : trace[i] = e

\* the events of destroying, in this order, those of the objects still alive
Destroy(order) ==
  LET live == SelectSeq(order, LAMBDA o : o \in alive)
  IN [i \in 1..Len(live) |-> "-" \o live[i]]

\* the locals of the try block, in reverse order of declaration
TryLocals == <<"vp", "rc", "gui", "receiver", "sender", "socket">>

\* (mutation) the result of Connect is not looked at
AfterConnectUnchecked(connected) == "comms"

\* if (!connected) { log; throw std::runtime_error("Unable to connect"); }
AfterConnect(connected) == IF connected THEN "comms" ELSE "catch"

\* auto args = parseOptions(argc, argv, getOptions()): outside the try block.
\* With --help it prints the usage and throws std::runtime_error; an option it
\* cannot parse makes parse_command_line throw.  Nothing catches either.
MainParseOptions ==
  /\ mainPc = "start"
  /\ IF mainIn.args = "ok"
       THEN /\ mainPc' = "nif"
            /\ trace' = Append(trace, "parseOptions")
            /\ UNCHANGED exit
       ELSE /\ mainPc' = "done"
            /\ trace' = trace \o (IF mainIn.args = "help" THEN <<"usage">>
                                   ELSE <<>>) \o <<"throw">>
            /\ exit' = "terminate"
  /\ UNCHANGED <<mainIn, alive, frames>>
  /\ UNCHANGED otherVars

\* if (!nifPathJsonFile.empty()) remoteNifModels = jsonFileToMap(...);
\* read_json throws json_parser_error, a std::runtime_error, on a file it
\* cannot read or parse.
MainNifPaths ==
  /\ mainPc = "nif"
  /\ CASE mainIn.nif = "none" -> mainPc' = "connect" /\ UNCHANGED trace
       [] mainIn.nif = "ok" ->
            mainPc' = "connect" /\ trace' = Append(trace, "jsonFileToMap")
       [] mainIn.nif = "bad" ->
            mainPc' = "catch" /\ trace' = trace \o <<"jsonFileToMap", "throw">>
  /\ UNCHANGED <<mainIn, alive, frames, exit>>
  /\ UNCHANGED otherVars

\* socket = make_unique<TcpSocket>(); connected = socket->Connect(host, port);
\* on failure a log line and a throw, which destroys socket on the way to
\* the handler.
MainConnect ==
  /\ mainPc = "connect"
  /\ mainPc' = AfterConnect(mainIn.connect)
  /\ IF mainIn.connect
       THEN /\ trace' = trace \o <<"+socket", "Connect", "log: Connected">>
            /\ alive' = alive \cup {"socket"}
       ELSE /\ trace' = trace \o <<"+socket", "Connect",
                                    "log: Could not conect", "throw", "-socket">>
            /\ UNCHANGED alive
  /\ UNCHANGED <<mainIn, frames, exit>>
  /\ UNCHANGED otherVars

\* sender = make_unique<PacketMuxer>(*socket, ...);
\* receiver = make_unique<PacketDemuxer>(*socket, ...);
MainComms ==
  /\ mainPc = "comms"
  /\ mainPc' = "gui"
  /\ trace' = trace \o <<"+sender", "+receiver">>
  /\ alive' = alive \cup {"sender", "receiver"}
  /\ UNCHANGED <<mainIn, frames, exit>>
  /\ UNCHANGED otherVars

\* DebugGUI gui;
MainGui ==
  /\ mainPc = "gui"
  /\ mainPc' = "clients"
  /\ trace' = Append(trace, "+gui")
  /\ alive' = alive \cup {"gui"}
  /\ UNCHANGED <<mainIn, frames, exit>>
  /\ UNCHANGED otherVars

\* RenderClient rc(*sender, *receiver); VideoPreview vp(..., *receiver);
MainClients ==
  /\ mainPc = "clients"
  /\ mainPc' = "guiInit"
  /\ trace' = trace \o <<"+rc", "+vp">>
  /\ alive' = alive \cup {"rc", "vp"}
  /\ UNCHANGED <<mainIn, frames, exit>>
  /\ UNCHANGED otherVars

\* if (!gui.Initialize(...)) return 1;  the return destroys the locals.
MainGuiInitialize ==
  /\ mainPc = "guiInit"
  /\ IF mainIn.guiInit
       THEN /\ mainPc' = "loop"
            /\ trace' = Append(trace, "gui.Initialize")
            /\ UNCHANGED <<alive, exit>>
       ELSE /\ mainPc' = "done"
            /\ trace' = trace \o <<"gui.Initialize">> \o Destroy(TryLocals)
            /\ alive' = {}
            /\ exit' = "EXIT_FAILURE"
  /\ UNCHANGED <<mainIn, frames>>
  /\ UNCHANGED otherVars

\* one iteration of while (gui.BeginFrame()) { ... gui.EndFrame(); }
MainLoopFrame ==
  /\ mainPc = "loop"
  /\ frames < MaxLoops
  /\ frames' = frames + 1
  /\ trace' = Append(trace, "frame")
  /\ UNCHANGED <<mainPc, mainIn, alive, exit>>
  /\ UNCHANGED otherVars

\* gui.BeginFrame() returns false
MainLoopEnd ==
  /\ mainPc = "loop"
  /\ mainPc' = "cleanup"
  /\ trace' = Append(trace, "loop ended")
  /\ UNCHANGED <<mainIn, alive, frames, exit>>
  /\ UNCHANGED otherVars

\* gui.Cleanup();
MainCleanup ==
  /\ mainPc = "cleanup"
  /\ mainPc' = "resetSender"
  /\ trace' = Append(trace, "gui.Cleanup")
  /\ UNCHANGED <<mainIn, alive, frames, exit>>
  /\ UNCHANGED otherVars

\* sender.reset();
MainResetSender ==
  /\ mainPc = "resetSender"
  /\ mainPc' = "resetSocket"
  /\ trace' = trace \o Destroy(<<"sender">>)
  /\ alive' = alive \ {"sender"}
  /\ UNCHANGED <<mainIn, frames, exit>>
  /\ UNCHANGED otherVars

\* socket.reset();
MainResetSocket ==
  /\ mainPc = "resetSocket"
  /\ mainPc' = "scopeExit"
  /\ trace' = trace \o Destroy(<<"socket">>)
  /\ alive' = alive \ {"socket"}
  /\ UNCHANGED <<mainIn, frames, exit>>
  /\ UNCHANGED otherVars

\* the end of the try block destroys the locals still alive; then
\* return EXIT_SUCCESS;
MainScopeExit ==
  /\ mainPc = "scopeExit"
  /\ mainPc' = "done"
  /\ trace' = trace \o Destroy(TryLocals)
  /\ alive' = {}
  /\ exit' = "EXIT_SUCCESS"
  /\ UNCHANGED <<mainIn, frames>>
  /\ UNCHANGED otherVars

\* catch (const std::runtime_error& e) { log error; return EXIT_FAILURE; }
MainCatch ==
  /\ mainPc = "catch"
  /\ mainPc' = "done"
  /\ trace' = Append(trace, "log: Error")
  /\ exit' = "EXIT_FAILURE"
  /\ UNCHANGED <<mainIn, alive, frames>>
  /\ UNCHANGED otherVars

-----------------------------------------------------------------------------
(* Initial states *)

\* The form when its constructor starts: no widget has a value yet.
FormInit ==
  /\ ctorPc = 1
  /\ value = [c \in ControlChannels |-> 0]
  /\ sent = <<>>
  /\ subs = {}
  /\ screenVisible = TRUE
  /\ nUser = [c \in ControlChannels |-> 0]
  /\ nActions = 0
  /\ registry = [ch \in InboundChannels |-> 0]
  /\ lastFov = [kind |-> "none", v |-> 0, rep |-> 0, okind |-> "none", ov |-> 0]

RECURSIVE BuiltSent(_)
\* the packets sent by the first i blocks of the constructor
BuiltSent(i) ==
  IF i = 0 THEN <<>>
  ELSE IF CtorSteps[i] \in SliderChannels
         THEN SliderInitSent(BuiltSent(i - 1), CtorSteps[i])
         ELSE BuiltSent(i - 1)

\* The form when its constructor has returned and no user has touched it.
FormBuilt ==
  /\ ctorPc = Len(CtorSteps) + 1
  /\ value = [c \in ControlChannels |->
                IF c \in SliderChannels THEN SliderDefault(c)
                ELSE IF c = "device" THEN 1 ELSE 0]
  /\ sent = BuiltSent(Len(CtorSteps))
  /\ subs = {"fov", "tile_histogram"}
  /\ screenVisible = TRUE
  /\ nUser = [c \in ControlChannels |-> 0]
  /\ nActions = 0
  /\ registry = [ch \in InboundChannels |-> IF ch \in subs THEN 1 ELSE 0]
  /\ lastFov = [kind |-> "default", v |-> SliderDefault("fov"), rep |-> 0,
                okind |-> "default", ov |-> SliderDefault("fov")]

RxInit ==
  /\ rxPc = "idle"
  /\ rxPkt = <<>>
  /\ nMsgs = 0
  /\ nApplied = 0
  /\ histHeader = 0
  /\ histValues = <<>>

\* hdrHeader(packets::HdrHeader{0,0,0}), an empty buffer, no file
FrameInit ==
  /\ hdrHeader = [width |-> 0, height |-> 0]
  /\ hdrBuffer = <<>>
  /\ hdrBufferMutex = "free"
  /\ frameState = "Idle"
  /\ rowsDone = 0
  /\ frameNo = 0
  /\ nComplete = 0
  /\ framePc = "idle"
  /\ savePc = "idle"
  /\ sawEmpty = TRUE
  /\ file = [exists |-> FALSE, header |-> <<>>, data |-> <<>>]
  /\ nSaves = 0
  /\ exported = [state |-> "none", frame |-> 0,
                 header |-> [width |-> 0, height |-> 0], buffer |-> <<>>]

SampleInit ==
  /\ sampleIn = <<0, 0>>
  /\ sampleOut = <<-1, -1>>

\* the transport is connected and writes succeed
NetInit == linkUp = TRUE

\* main has not started
MainIdle ==
  /\ mainPc = "start"
  /\ mainIn = [args |-> "ok", nif |-> "none", connect |-> TRUE,
               guiInit |-> TRUE]
  /\ alive = {}
  /\ trace = <<>>
  /\ frames = 0
  /\ exit = "running"

-----------------------------------------------------------------------------
(* Specifications *)

\* The controls: construction, user interaction, inbound dispatch.
Init == NetInit /\ FormInit /\ RxInit /\ FrameInit /\ SampleInit /\ MainIdle

Next ==
  \/ CtorRotator
  \/ \E c \in SliderChannels : CtorSlider(c)
  \/ \E ch \in {"fov", "tile_histogram"} : CtorSubscribe(ch)
  \/ CtorDeviceChooser
  \/ CtorStopButton
  \/ \E c \in SliderChannels, v \in SliderInputs : UserSlider(c, v)
  \/ \E v \in RotatorInputs : UserRotate(v)
  \/ \E index \in 1..Len(DeviceItems) : UserDevice(index)
  \/ UserStop
  \/ \E ch \in InboundChannels : \E p \in PayloadsOf(ch) : RxReceive(ch, p)
  \/ RxFovCallback
  \/ RxHistCallback

Spec == Init /\ [][Next]_vars

\* Frame accumulation and export on a built form.
InitFrame ==
  NetInit /\ FormBuilt /\ RxInit /\ FrameInit /\ SampleInit /\ MainIdle

NextFrame ==
  \/ RxFrameLock
  \/ \E w \in 1..MaxWidth, h \in 1..MaxHeight : RxWriteHeader(w, h)
  \/ RxWriteRow
  \/ RxFrameUnlock
  \/ SaveCall
  \/ SaveCheck
  \/ SaveLock
  \/ SaveWrite

SpecFrame == InitFrame /\ [][NextFrame]_vars

\* The user working a built form over a transport whose writes can fail.
InitPublish ==
  NetInit /\ FormBuilt /\ RxInit /\ FrameInit /\ SampleInit /\ MainIdle

NextPublish ==
  \/ \E c \in SliderChannels, v \in SliderInputs : UserSlider(c, v)
  \/ \E v \in RotatorInputs : UserRotate(v)
  \/ \E index \in 1..Len(DeviceItems) : UserDevice(index)
  \/ UserStop
  \/ TransportDown
  \/ TransportUp

SpecPublish == InitPublish /\ [][NextPublish]_vars

\* Inbound dispatch on a built form when the remote also sends payloads that
\* do not decode; the user drags the fov slider in between.
InitMalformed ==
  NetInit /\ FormBuilt /\ RxInit /\ FrameInit /\ SampleInit /\ MainIdle

NextMalformed ==
  \/ \E ch \in InboundChannels :
       \E p \in PayloadsOf(ch) \cup {Malformed} : RxReceive(ch, p)
  \/ RxFovCallback
  \/ RxHistCallback
  \/ RxFovMalformed
  \/ RxHistMalformed
  \/ \E v \in SliderInputs : UserSlider("fov", v)

SpecMalformed == InitMalformed /\ [][NextMalformed]_vars

\* The "tile_histogram" callback on every sequence of at most MaxHistLen
\* counts up to MaxCount: a built form with one such packet being dispatched.
HistInputs ==
  UNION {[1..n -> 0..MaxCount] : n \in 0..MaxHistLen}

InitHist ==
  /\ NetInit /\ FormBuilt /\ FrameInit /\ SampleInit /\ MainIdle
  /\ rxPc = "tile_histogram"
  /\ rxPkt \in HistInputs
  /\ nMsgs = 1
  /\ nApplied = 0
  /\ histHeader = 0
  /\ histValues = <<>>

NextHist == RxHistCallback

SpecHist == InitHist /\ [][NextHist]_vars

\* convertSampleValue on every pair of arguments v1 <= v2 in [0, 1].
InitSample ==
  /\ NetInit /\ FormBuilt /\ RxInit /\ FrameInit /\ MainIdle
  /\ sampleIn \in {p \in (0..SampleDenom) \X (0..SampleDenom) : p[1] <= p[2]}
  /\ sampleOut = <<-1, -1>>

NextSample == \E i \in 1..2 : ConvertCall(i)

SpecSample == InitSample /\ [][NextSample]_vars

\* main() on every command line and environment: arguments that parse, ask
\* for help or do not parse; no, a readable or an unreadable NIF file; a
\* server that accepts or refuses; a GUI that initialises or not.
MainInputs ==
  [args : {"ok", "help", "invalid"}, nif : {"none", "ok", "bad"},
   connect : BOOLEAN, guiInit : BOOLEAN]

InitMain ==
  /\ NetInit /\ FormInit /\ RxInit /\ FrameInit /\ SampleInit
  /\ mainPc = "start"
  /\ mainIn \in MainInputs
  /\ alive = {}
  /\ trace = <<>>
  /\ frames = 0
  /\ exit = "running"

NextMain ==
  \/ MainParseOptions
  \/ MainNifPaths
  \/ MainConnect
  \/ MainComms
  \/ MainGui
  \/ MainClients
  \/ MainGuiInitialize
  \/ MainLoopFrame
  \/ MainLoopEnd
  \/ MainCleanup
  \/ MainResetSender
  \/ MainResetSocket
  \/ MainScopeExit
  \/ MainCatch

SpecMain == InitMain /\ [][NextMain]_vars

-----------------------------------------------------------------------------
(* Consistency of the two descriptions of the constructor *)

\* The built form of InitFrame, InitHist and InitSample is the state the
\* constructor's blocks lead to.
BuiltFormIsConstructed ==
  (CtorDone /\ nActions = 0 /\ nApplied = 0) =>
     /\ sent = BuiltSent(Len(CtorSteps))
     /\ subs = {"fov", "tile_histogram"}
     /\ registry = [ch \in InboundChannels |-> IF ch \in subs THEN 1 ELSE 0]
     /\ lastFov.kind = "default" /\ lastFov.v = SliderDefault("fov")
     /\ \A c \in ControlChannels :
          value[c] = IF c \in SliderChannels THEN SliderDefault(c)
                     ELSE IF c = "device" THEN 1 ELSE 0

-----------------------------------------------------------------------------
(* Claims *)

\* the constructor is past the fovSlider block
FovInitDone == ctorPc > 2

\* C1 (loop prevention): on the "fov" channel the packets sent are the one
\* sent by the constructor plus one per user-driven change, whatever number of
\* inbound updates was applied; and each run of the "fov" callback sets the
\* slider to the decoded value and sends nothing.
C1_LoopPrevention ==
  /\ [](PubCount("fov") = (IF FovInitDone THEN 1 + nUser["fov"] ELSE 0))
  /\ [][(rxPc = "fov" /\ rxPc' = "idle") =>
          /\ sent' = sent
          /\ value'["fov"] = FovSliderValue(rxPkt[1])]_vars

\* C1 witness: after a user change of the fov slider, a remote update of 7 rad
\* has been applied and is displayed, with two updates applied in all.
C1_Witness ==
  /\ nUser["fov"] = 1
  /\ nApplied = 2
  /\ rxPc = "idle"
  /\ value["fov"] = FovSliderValue(7000)
  /\ PubCount("fov") = 2

\* the unlocked hdrBuffer.empty() of savePfm is about to read the buffer
\* while the receive context, inside its critical section, resizes it
RacyEmptyCheck == savePc = "check" /\ framePc = "hdr"

\* C2 (export sees one completed frame): whatever a savePfm call wrote was
\* read from a buffer and header in state Complete, all samples being those of
\* that one cycle, and its emptiness test never runs while the receive context
\* is writing the buffer.
C2_ExportReadsOneCompletedFrame ==
  /\ exported.state # "none" =>
       /\ exported.state = "Complete"
       /\ \A i \in 1..Len(file.data) :
            \E j \in 1..Len(exported.buffer) :
               file.data[i] = Sample(exported.frame, j)
  /\ ~RacyEmptyCheck

\* C3 (export before completion): while no cycle has reached Complete, no
\* file has been created or written.
C3_NoWriteBeforeCompletion == nComplete = 0 => ~file.exists

\* the "tile_histogram" callback of SpecHist has run on the counts rxPkt
HistDone == rxPc = "idle" /\ nMsgs = 1

\* C4 (all-zero histogram): for counts whose maximum is zero the values set
\* are as many as the counts and every one is the number 0.
C4_ZeroHistogramGivesZeros ==
  (HistDone /\ MaxFrom(rxPkt, 1, 0) = 0) =>
     /\ Len(histValues) = Len(rxPkt)
     /\ \A i \in 1..Len(histValues) : histValues[i] = F32Zero

\* C5 (normalisation): for counts with a nonzero maximum the values set are,
\* in order, count / maximum, each in [0, 1], 1 for every count equal to the
\* maximum, and the header shows the maximum.
C5_HistogramNormalised ==
  (HistDone /\ MaxFrom(rxPkt, 1, 0) > 0) =>
     LET max == MaxFrom(rxPkt, 1, 0)
     IN /\ Len(histValues) = Len(rxPkt)
        /\ histHeader = max
        /\ \A i \in 1..Len(rxPkt) :
             /\ F32InUnit(histValues[i])
             /\ rxPkt[i] = max => histValues[i] = F32One
             /\ histValues[i] = F32Div(rxPkt[i], max)

\* C6 (sample count): every result of convertSampleValue on [0, 1] is an
\* integer in 1..16, equal arguments give equal results, and the results of
\* v1 <= v2 are in the same order.
C6_SampleCountBounded ==
  /\ \A i \in 1..2 : sampleOut[i] # -1 => sampleOut[i] \in 1..16
  /\ (sampleOut[1] # -1 /\ sampleOut[2] # -1) =>
       /\ sampleOut[1] <= sampleOut[2]
       /\ sampleIn[1] = sampleIn[2] => sampleOut[1] = sampleOut[2]

\* C6 witness: the conversion has run on 0 and on 1 and gave 1 and 16.
C6_Witness ==
  /\ sampleIn = <<0, SampleDenom>>
  /\ sampleOut = <<1, 16>>

\* C7 (export format): a file written from a completed w x h frame holds the
\* header "PF\n", "w h\n", "-1.0\n" and then w*h*3 samples, the sample at
\* position i of the data being the one at column (i-1) % (3w) of buffer row
\* h-1 - (i-1) \div (3w): rows h-1, ..., 0, each once, each of w*3 samples.
C7_ExportWritesRowsBottomUp ==
  (file.exists /\ exported.state = "Complete") =>
     LET w == exported.header.width
         h == exported.header.height
     IN /\ file.header = << "PF\n", ToString(w) \o " ",
                            ToString(h) \o "\n", "-1.0\n" >>
        /\ Len(file.data) = w * h * 3
        /\ \A i \in 1..(w * h * 3) :
             file.data[i] =
               exported.buffer[(h - 1 - (i - 1) \div (3 * w)) * 3 * w
                               + ((i - 1) % (3 * w)) + 1]

\* C7 witness: savePfm has returned after writing a completed 2 x 2 frame.
C7_Witness ==
  /\ file.exists
  /\ savePc = "idle"
  /\ exported.state = "Complete"
  /\ exported.header = [width |-> 2, height |-> 2]
  /\ Len(file.data) = 12

\* C9 (mutual exclusion on shared state): the receive context is never
\* writing the frame buffer while the interactive context accesses it without
\* holding hdrBufferMutex.
C9_SharedStateUnderLock ==
  ~(/\ framePc \in {"hdr", "row"}
    /\ hdrBufferMutex = "rx"
    /\ savePc = "check")

\* C10 (initial value policy): once the form is built, every control binding
\* has sent its default once, so the packets sent on its channel are one more
\* than the user-driven changes of the control.
C10_EveryBindingPublishesDefault ==
  CtorDone => \A c \in ControlChannels : PubCount(c) = 1 + nUser[c]

\* the position the "fov" slider shows after an event of the given kind
FovShown(kind, v) ==
  IF kind = "remote" THEN (v * Unit) \div TwoPi ELSE v

\* C11 (last update wins on "fov"): once the constructor has set the default,
\* the slider shows the value of the most recent event among the default, the
\* user's changes and the remote "fov" packets received, whenever the packet
\* arrived, also between the default and the subscription.
C11_LastUpdateWins ==
  FovInitDone => value["fov"] = FovShown(lastFov.okind, lastFov.ov)

\* C12 (idempotence of remote application): a run of the "fov" callback whose
\* payload is the one the previous event on the binding, also a run of the
\* callback, applied, leaves the displayed values, the packets sent, the
\* subscriptions, the histogram and the window as they were.
C12_RemoteApplyIdempotent ==
  [][(/\ rxPc = "fov" /\ rxPc' = "idle"
      /\ lastFov.kind = "remote" /\ lastFov.v = rxPkt[1]) =>
        /\ value' = value
        /\ sent' = sent
        /\ <<subs, registry, screenVisible, nUser>>' =
             <<subs, registry, screenVisible, nUser>>
        /\ <<histHeader, histValues>>' = <<histHeader, histValues>>
        /\ lastFov'.rep = lastFov.rep + 1]_vars

\* C12 witness: 1.571 rad was applied twice in succession to a built form
\* and the slider shows a quarter turn, with only the default sent on "fov".
C12_Witness ==
  /\ lastFov.kind = "remote" /\ lastFov.v = 1571 /\ lastFov.rep = 2
  /\ rxPc = "idle"
  /\ value["fov"] = 250
  /\ PubCount("fov") = 1

\* C13 (malformed payload): a callback dispatched with a payload that does
\* not decode returns to the receive context, which goes on dispatching, and
\* leaves the displayed values and the histogram as they were.
C13_MalformedPayloadSkipped ==
  /\ [](rxPc # "crashed")
  /\ [][(rxPc \in {"fov", "tile_histogram"} /\ ~Decodable(rxPkt)
           /\ rxPc' # rxPc) =>
          /\ rxPc' = "idle"
          /\ value' = value
          /\ <<histHeader, histValues>>' = <<histHeader, histValues>>]_vars

\* C14 (connection failure at start-up): when Connect fails, the failure is
\* logged, neither sender, receiver, GUI, render client nor video preview is
\* ever constructed, the GUI is not initialised, nothing is sent, and the
\* process ends with EXIT_FAILURE and the socket destroyed.
C14_ConnectFailureExitsBeforeUi ==
  (Did("Connect") /\ ~mainIn.connect) =>
     /\ Did("log: Could not conect")
     /\ \A e \in {"+sender", "+receiver", "+gui", "+rc", "+vp",
                   "gui.Initialize", "frame"} : ~Did(e)
     /\ alive = {}
     /\ sent = <<>>
     /\ exit \in {"running", "EXIT_FAILURE"}
     /\ mainPc \in {"catch", "done"}
     /\ (mainPc = "done" => exit = "EXIT_FAILURE" /\ Did("log: Error"))

\* C14 witness: main has ended after a refused connection.
C14_Witness ==
  /\ mainPc = "done"
  /\ ~mainIn.connect
  /\ Did("Connect")
  /\ exit = "EXIT_FAILURE"

\* C15 (exit codes): main ends with EXIT_SUCCESS exactly when the main loop
\* was entered and ended; otherwise it ends with EXIT_FAILURE; in both cases
\* every object is destroyed, the socket included, and no exception leaves
\* main.
C15_ExitCodeReflectsOutcome ==
  mainPc = "done" =>
     /\ exit # "terminate"
     /\ exit = (IF Did("loop ended") THEN "EXIT_SUCCESS" ELSE "EXIT_FAILURE")
     /\ alive = {}

\* C19 (shutdown order): the socket is destroyed only when the receiver that
\* reads from it is, the sender only when the render client that refers to it
\* is, and the receiver only when the render client and the video preview are.
C19_ReleasedAfterItsUsers ==
  /\ (Did("+socket") /\ "socket" \notin alive) => "receiver" \notin alive
  /\ (Did("+sender") /\ "sender" \notin alive) => "rc" \notin alive
  /\ (Did("+receiver") /\ "receiver" \notin alive) =>
        ("rc" \notin alive /\ "vp" \notin alive)

\* C16 (publish failure): every user action hands exactly one packet to the
\* sender, whether earlier writes failed or not, and nothing else sends (no
\* retry); the packet carries the value the control now shows, also when its
\* write fails; the failure is recorded with the packet; and the form stays
\* open to the user unless Stop was pressed.
C16_PublishFailureKeepsValue ==
  /\ [](screenVisible <=> PubCount("stop") = 0)
  /\ [][LET n == Len(sent)
        IN /\ Len(sent') \in {n, n + 1}
           /\ (Len(sent') = n + 1) <=> (nActions' = nActions + 1)
           /\ (Len(sent') = n + 1) =>
                LET pkt == sent'[n + 1]
                IN /\ SubSeq(sent', 1, n) = sent
                   /\ pkt.ok = linkUp
                   /\ pkt.ch \in SliderChannels =>
                        /\ pkt.val = SliderPublished(pkt.ch, value'[pkt.ch])
                        /\ nUser'[pkt.ch] = nUser[pkt.ch] + 1
                   /\ pkt.ch = "env_rotation" =>
                        pkt.val = RotatorPublished(value'["env_rotation"])
                   /\ pkt.ch = "device" =>
                        pkt.val = DeviceItems[value'["device"]]]_vars

\* C16 witness: the user dragged the fov slider to 0 while writes failed and
\* then to 1 when they succeeded again: two packets, the first one failed,
\* and the slider shows 1.
C16_Witness ==
  /\ Len(sent) = Len(BuiltSent(Len(CtorSteps))) + 2
  /\ sent[Len(sent) - 1] = [ch |-> "fov", val |-> 0, ok |-> FALSE]
  /\ sent[Len(sent)] = [ch |-> "fov", val |-> 360 * Unit, ok |-> TRUE]
  /\ value["fov"] = Unit

RangeLo(c) == IF c = "exposure" THEN -2 * Unit ELSE 0
RangeHi(c) ==
  CASE c = "fov"      -> 360 * Unit
    [] c = "exposure" -> 2 * Unit
    [] c = "gamma"    -> 4 * Unit
    [] c = "X"        -> 1280 * Unit
    [] c = "Y"        -> 720 * Unit
    [] c = "lambda1"  -> 100 * Unit
    [] c = "lambda2"  -> 100 * Unit

\* C18 (published range): every value sent on a slider channel, the default
\* sent by the constructor included, lies in the channel's range.
C18_PublishedInRange ==
  \A i \in 1..Len(sent) :
     sent[i].ch \in SliderChannels =>
        /\ RangeLo(sent[i].ch) <= sent[i].val
        /\ sent[i].val <= RangeHi(sent[i].ch)

\* C20 (header and buffer agree): while savePfm holds the lock and writes the
\* file, width and height are positive and the buffer has width * height * 3
\* samples, so each row read lies inside it and no sample written comes from
\* outside the buffer; and no step changes the header within one cycle.
C20_HeaderMatchesBuffer ==
  /\ [](savePc = "write" =>
          /\ hdrHeader.width > 0 /\ hdrHeader.height > 0
          /\ Len(hdrBuffer) = hdrHeader.width * hdrHeader.height * 3
          /\ \A r \in 0..(hdrHeader.height - 1) :
                r * hdrHeader.width * 3 + hdrHeader.width * 3 <= Len(hdrBuffer))
  /\ [](file.exists =>
          /\ Len(file.data) = Len(exported.buffer)
          /\ \A i \in 1..Len(file.data) : file.data[i] # -1)
  /\ [][(frameState = "Receiving" /\ frameNo' = frameNo) =>
          hdrHeader' = hdrHeader]_vars

\* C20 witness: savePfm is writing a 2 x 2 frame of which one row has
\* arrived.
C20_Witness ==
  /\ savePc = "write"
  /\ frameState = "Receiving" /\ rowsDone = 1
  /\ hdrHeader = [width |-> 2, height |-> 2]
  /\ Len(hdrBuffer) = 12

====
